---- MODULE Spec2Model ----
(***************************************************************************)
(* A model of the convo-docs backend: the in-memory vector store FAISSDB   *)
(* (backend/utils/vector_store.py), the upload handler and chunk_text      *)
(* (backend/controllers/file_controller.py) and process_text               *)
(* (backend/utils/text_processor.py).                                      *)
(*                                                                         *)
(* A text is a sequence of one-character strings.  An embedding is a       *)
(* sequence of integers; distances are squared Euclidean distances.        *)
(* Positions are 0-based as in the code; TLA+ sequences are 1-based, so    *)
(* position p of a Python list is element p + 1 of the sequence.           *)
(***************************************************************************)
EXTENDS Integers, Sequences, FiniteSets, TLC

VARIABLES faiss_db, result, threads, chunk_args

vars == <<faiss_db, result, threads, chunk_args>>

----------------------------------------------------------------------------
(* Bounds of the model.                                                    *)

\* Most entries the store holds in the sequential specification.
MaxDocs == 6
\* Most entries the store holds in SpecUpload.
MaxUploadDocs == 4
\* Most entries the store holds in the concurrent specification.
MaxConcDocs == 3
\* Longest text (in characters) given to chunk_text in SpecChunk.
MaxTextLen == 5
\* Largest chunk_size given to chunk_text in SpecChunk.
MaxChunkSize == 3

----------------------------------------------------------------------------
(* Program constants.                                                      *)

\* n_results = 5 in query_embeddings.
n_results == 5
\* embedding_dimension of the index; all-MiniLM-L6-v2 has 384, the model's
\* embedding provider (Embed below) has 2.
embedding_dimension == 2
\* chunk_text's default chunk_size, which upload_file uses.  The code has 500
\* words; the model has 2, so that a document of a few words has several chunks.
DefaultChunkSize == 2

----------------------------------------------------------------------------
(* Texts.                                                                  *)

T_a == <<"a">>
T_A == <<"A">>
T_b == <<"b">>
T_ab == <<"a", " ", "b">>

Whitespace == {" ", "\n"}

Min(a, b) == IF a <= b THEN a ELSE b

----------------------------------------------------------------------------
(* backend/utils/text_processor.py                                         *)

\* text.replace("\n", " ")
ReplaceNewlines(text) == [i \in 1..Len(text) |-> IF text[i] = "\n" THEN " " ELSE text[i]]

\* str.strip(): leading and trailing whitespace removed.
RECURSIVE LStrip(_)
LStrip(text) ==
    IF text # <<>> /\ Head(text) \in Whitespace THEN LStrip(Tail(text)) ELSE text

RECURSIVE RStrip(_)
RStrip(text) ==
    IF text # <<>> /\ text[Len(text)] \in Whitespace
    THEN RStrip(SubSeq(text, 1, Len(text) - 1))
    ELSE text

Strip(text) == RStrip(LStrip(text))

process_text(text) == Strip(ReplaceNewlines(text))

----------------------------------------------------------------------------
(* backend/controllers/file_controller.py: chunk_text                      *)

\* str.split() without arguments: the maximal runs of non-whitespace
\* characters, in order.  cur is the word being read.
RECURSIVE SplitFrom(_, _)
SplitFrom(text, cur) ==
    IF text = <<>>
    THEN IF cur = <<>> THEN <<>> ELSE <<cur>>
    ELSE IF Head(text) \in Whitespace
         THEN IF cur = <<>>
              THEN SplitFrom(Tail(text), <<>>)
              ELSE <<cur>> \o SplitFrom(Tail(text), <<>>)
         ELSE SplitFrom(Tail(text), Append(cur, Head(text)))

Split(text) == SplitFrom(text, <<>>)

\* ' '.join(words)
RECURSIVE Join(_)
Join(words) ==
    IF words = <<>> THEN <<>>
    ELSE IF Len(words) = 1 THEN words[1]
    ELSE words[1] \o <<" ">> \o Join(Tail(words))

\* words[i:i+chunk_size], i 0-based; a Python slice stops at the list's end.
Slice(words, i, chunk_size) == SubSeq(words, i + 1, Min(i + chunk_size, Len(words)))

\* range(0, len(words), chunk_size) as the sequence of its values.
ChunkStarts(n, chunk_size) ==
    [j \in 1..((n + chunk_size - 1) \div chunk_size) |-> (j - 1) * chunk_size]

\* A chunk_text that forgets the last, shorter window.
chunk_text_full_windows(text, chunk_size) ==
    LET words == Split(text)
        starts == ChunkStarts(Len(words) - (Len(words) % chunk_size), chunk_size)
    IN  [j \in 1..Len(starts) |-> Join(Slice(words, starts[j], chunk_size))]

chunk_text(text, chunk_size) ==
    LET words == Split(text)
        starts == ChunkStarts(Len(words), chunk_size)
    IN  [j \in 1..Len(starts) |-> Join(Slice(words, starts[j], chunk_size))]

----------------------------------------------------------------------------
(* backend/utils/vector_store.py: FAISSDB                                  *)

\* The tokenizer of all-MiniLM-L6-v2 is uncased: it lowercases its input.
Lower(c) == IF c = "A" THEN "a" ELSE IF c = "B" THEN "b" ELSE c

Count(text, c) == Cardinality({i \in 1..Len(text) : Lower(text[i]) = c})

\* self.embedder.encode([text])[0]: a deterministic function of the text with
\* embedding_dimension components, which is not injective (texts that differ
\* in case only have the same embedding).
Embed(text) == <<Count(text, "a"), Count(text, "b")>>

\* hashlib.sha256(text.encode('utf-8')).hexdigest(): a label that is a
\* function of the text alone and differs for texts that differ.
_generate_id_from_text(text) == <<"sha256", text>>

\* generate_embeddings(text).  provider is what the embedding provider does
\* on this call: "ok", "unavailable" (encode raises), or "baddim" (it
\* returns a vector whose length is not the index's dimension).
generate_embeddings(text, provider) ==
    CASE provider = "ok" -> [err |-> "none", vec |-> Embed(text)]
      [] provider = "baddim" -> [err |-> "none", vec |-> Append(Embed(text), 0)]
      [] OTHER -> [err |-> "EmbeddingUnavailable", vec |-> <<>>]

\* A metadata value as the caller gives it: a string or an integer.
StrVal(s) == <<"str", s>>
IntVal(n) == <<"int", n>>

\* str(v): a string is itself, an integer its decimal digits.
StrOf(v) == IF v[1] = "int" THEN ToString(v[2]) ELSE v[2]

\* {k: str(v) for k, v in metadata.items()}
NormalizeMetadata(metadata) == [k \in DOMAIN metadata |-> StrOf(metadata[k])]

\* d[key] = value on a dict.
DictSet(d, key, value) ==
    [x \in (DOMAIN d) \cup {key} |-> IF x = key THEN value ELSE d[x]]

\* d.get(key, {})
DictGet(d, key) == IF key \in DOMAIN d THEN d[key] ELSE <<>>

EmptyDB == [index |-> <<>>, ids |-> <<>>, documents |-> <<>>, metadata_store |-> <<>>]

\* self.index.add(embedding_np): faiss refuses a vector whose length is not
\* the index's dimension and adds nothing.
IndexAdd(index, vec) ==
    IF Len(vec) = embedding_dimension
    THEN [err |-> "none", index |-> Append(index, vec)]
    ELSE [err |-> "DimensionMismatch", index |-> index]

\* A store_embeddings that appends the id and the document before it adds
\* the vector to the index.
store_embeddings_id_first(db, text, metadata, provider) ==
    LET e == generate_embeddings(text, provider)
        doc_id == _generate_id_from_text(text)
        withDoc == [db EXCEPT !.ids = Append(@, doc_id),
                              !.documents = Append(@, text)]
        added == IndexAdd(db.index, e.vec)
    IN  IF e.err # "none" THEN [err |-> e.err, db |-> db]
        ELSE IF added.err # "none" THEN [err |-> added.err, db |-> withDoc]
        ELSE [err |-> "none",
              db |-> [withDoc EXCEPT
                        !.index = added.index,
                        !.metadata_store =
                            DictSet(@, doc_id, NormalizeMetadata(metadata))]]

\* store_embeddings(text, metadata): the new state of the store and the
\* exception raised ("none": the call returned).
store_embeddings(db, text, metadata, provider) ==
    LET e == generate_embeddings(text, provider)
        doc_id == _generate_id_from_text(text)
        added == IndexAdd(db.index, e.vec)
    IN  IF e.err # "none" THEN [err |-> e.err, db |-> db]
        ELSE IF added.err # "none" THEN [err |-> added.err, db |-> db]
        ELSE [err |-> "none",
              db |-> [index |-> added.index,
                      ids |-> Append(db.ids, doc_id),
                      documents |-> Append(db.documents, text),
                      metadata_store |->
                          DictSet(db.metadata_store, doc_id,
                                  NormalizeMetadata(metadata))]]

\* Squared Euclidean distance of two vectors of the same length.
RECURSIVE L2SqrFrom(_, _, _)
L2SqrFrom(u, v, i) ==
    IF i > Len(u) THEN 0
    ELSE (u[i] - v[i]) * (u[i] - v[i]) + L2SqrFrom(u, v, i + 1)

L2Sqr(u, v) == L2SqrFrom(u, v, 1)

\* The order in which the index ranks two found pairs: by distance, and at
\* equal distance by insertion position.
Closer(e, f) == e.dist < f.dist \/ (e.dist = f.dist /\ e.idx < f.idx)

\* e put into a list of pairs that is in ranking order.
RECURSIVE Insert(_, _)
Insert(best, e) ==
    IF best = <<>> THEN <<e>>
    ELSE IF Closer(e, Head(best)) THEN <<e>> \o best
    ELSE <<Head(best)>> \o Insert(Tail(best), e)

\* The scan of a flat index from position i on: every vector's distance to
\* the query is computed, and the k best pairs so far are kept in order.
RECURSIVE Scan(_, _, _, _, _)
Scan(index, q, k, i, best) ==
    IF i >= Len(index) THEN best
    ELSE LET e == [idx |-> i, dist |-> L2Sqr(index[i + 1], q)]
             kept == Insert(best, e)
         IN  Scan(index, q, k, i + 1, SubSeq(kept, 1, Min(k, Len(kept))))

\* best filled up to k pairs with index -1.
RECURSIVE Pad(_, _)
Pad(best, k) ==
    IF Len(best) >= k THEN best ELSE Pad(Append(best, [idx |-> -1, dist |-> -1]), k)

\* self.index.search(query_embedding, k) of a flat L2 index: k (distance,
\* index) pairs, the nearest first, filled up with index -1 when the index
\* holds fewer than k vectors.  A query of the wrong length is refused.
IndexSearch(index, q, k) ==
    IF Len(q) # embedding_dimension
    THEN [err |-> "DimensionMismatch", found |-> <<>>]
    ELSE [err |-> "none", found |-> Pad(Scan(index, q, k, 0, <<>>), k)]

\* A lookup that reads the lists one position before idx (Python's index -1
\* is the last element).
LookupShifted(db, f) ==
    LET p == (f.idx + Len(db.documents) - 1) % Len(db.documents)
    IN  IF f.idx = -1 THEN <<>>
        ELSE IF f.idx >= Len(db.ids) \/ f.idx >= Len(db.documents) THEN <<>>
        ELSE <<[id |-> db.ids[p + 1],
                distance |-> f.dist,
                document |-> db.documents[p + 1],
                metadata |-> DictGet(db.metadata_store, db.ids[p + 1]),
                idx |-> f.idx]>>

\* One pass of the loop over zip(distances[0], indices[0]): the entry for a
\* found pair, or nothing when idx is -1 or self.ids / self.documents has no
\* element idx (IndexError).  idx is kept in the entry to name the position
\* the entry refers to; the code's dictionary has the other four keys.
Lookup(db, f) ==
    IF f.idx = -1 THEN <<>>
    ELSE IF f.idx >= Len(db.ids) \/ f.idx >= Len(db.documents) THEN <<>>
    ELSE <<[id |-> db.ids[f.idx + 1],
            distance |-> f.dist,
            document |-> db.documents[f.idx + 1],
            metadata |-> DictGet(db.metadata_store, db.ids[f.idx + 1]),
            idx |-> f.idx]>>

RECURSIVE Collect(_, _)
Collect(db, found) ==
    IF found = <<>> THEN <<>>
    ELSE Lookup(db, Head(found)) \o Collect(db, Tail(found))

\* A query_embeddings that returns its entries farthest first.
RECURSIVE CollectReversed(_, _)
CollectReversed(db, found) ==
    IF found = <<>> THEN <<>>
    ELSE CollectReversed(db, Tail(found)) \o Lookup(db, Head(found))

query_embeddings_reversed(db, query, provider) ==
    IF Len(db.index) = 0 THEN [err |-> "none", value |-> <<>>]
    ELSE LET e == generate_embeddings(query, provider)
             s == IndexSearch(db.index, e.vec, n_results)
         IN  IF e.err # "none" THEN [err |-> e.err, value |-> <<>>]
             ELSE IF s.err # "none" THEN [err |-> s.err, value |-> <<>>]
             ELSE [err |-> "none", value |-> CollectReversed(db, s.found)]

\* A query_embeddings without the idx == -1 test: Python's ids[-1] is the
\* last element.
LookupNegative(db, f) ==
    LET p == IF f.idx = -1 THEN Len(db.ids) - 1 ELSE f.idx
    IN  <<[id |-> db.ids[p + 1], distance |-> f.dist,
           document |-> db.documents[p + 1],
           metadata |-> DictGet(db.metadata_store, db.ids[p + 1]),
           idx |-> p]>>

RECURSIVE CollectNegative(_, _)
CollectNegative(db, found) ==
    IF found = <<>> THEN <<>>
    ELSE LookupNegative(db, Head(found)) \o CollectNegative(db, Tail(found))

query_embeddings_no_skip(db, query, provider) ==
    IF Len(db.index) = 0 THEN [err |-> "none", value |-> <<>>]
    ELSE LET e == generate_embeddings(query, provider)
             s == IndexSearch(db.index, e.vec, n_results)
         IN  IF e.err # "none" THEN [err |-> e.err, value |-> <<>>]
             ELSE IF s.err # "none" THEN [err |-> s.err, value |-> <<>>]
             ELSE [err |-> "none", value |-> CollectNegative(db, s.found)]

\* query_embeddings(query, file_name): the list returned, or the exception
\* raised.  file_name is not used by the code.
query_embeddings(db, query, provider) ==
    IF Len(db.index) = 0 THEN [err |-> "none", value |-> <<>>]
    ELSE LET e == generate_embeddings(query, provider)
             s == IndexSearch(db.index, e.vec, n_results)
         IN  IF e.err # "none" THEN [err |-> e.err, value |-> <<>>]
             ELSE IF s.err # "none" THEN [err |-> s.err, value |-> <<>>]
             ELSE [err |-> "none", value |-> Collect(db, s.found)]

----------------------------------------------------------------------------
(* backend/utils/file_handler.py and backend/controllers/file_controller.py *)

\* file.filename.split('.')[-1].lower() for the file names of the model.
FileExtension(filename) ==
    CASE filename = "a.txt" -> "txt"
      [] filename = "b.DOCX" -> "docx"
      [] filename = "c.exe" -> "exe"
      [] OTHER -> filename

\* handle_file_upload(file): the text of a pdf, docx or txt file (content is
\* what the reader of that format extracts), ValueError for any other.
handle_file_upload(file) ==
    IF FileExtension(file.filename) \in {"pdf", "docx", "txt"}
    THEN [err |-> "none", text |-> file.content]
    ELSE [err |-> "Unsupported file type", text |-> <<>>]

\* The metadata upload_file gives chunk number idx (0-based) of a file.
ChunkMetadata(filename, idx) ==
    [filename |-> StrVal(filename), chunk_id |-> IntVal(idx)]

\* The calls of store_embeddings the loop of upload_file makes, in order, had
\* none of them failed: for idx, chunk in enumerate(chunks).
StoreCalls(filename, chunks) ==
    [j \in 1..Len(chunks) |->
        [text |-> chunks[j], metadata |-> ChunkMetadata(filename, j - 1)]]

\* The loop of upload_file from call number j on (1-based): it stops at the
\* first call that raises.  providers[j] is what the embedding provider does
\* on call j; made is the number of calls of store_embeddings made.
RECURSIVE StoreLoop(_, _, _, _)
StoreLoop(db, calls, providers, j) ==
    IF j > Len(calls) THEN [err |-> "none", db |-> db, made |-> j - 1]
    ELSE LET r == store_embeddings(db, calls[j].text, calls[j].metadata, providers[j])
         IN  IF r.err # "none" THEN [err |-> r.err, db |-> r.db, made |-> j]
             ELSE StoreLoop(r.db, calls, providers, j + 1)

\* upload_file(): the new state of the store, the HTTP response, and the
\* calls of store_embeddings it made (their arguments, in order).
upload_file(db, request, providers) ==
    IF ~request.has_file
    THEN [db |-> db, status |-> 400, body |-> [error |-> "No file part"],
          calls |-> <<>>]
    ELSE IF request.file.filename = ""
    THEN [db |-> db, status |-> 400, body |-> [error |-> "No selected file"],
          calls |-> <<>>]
    ELSE LET h == handle_file_upload(request.file)
             chunks == chunk_text(process_text(h.text), DefaultChunkSize)
             calls == StoreCalls(request.file.filename, chunks)
             r == StoreLoop(db, calls, providers, 1)
         IN  IF h.err # "none"
             THEN [db |-> db, status |-> 500, body |-> [error |-> h.err],
                   calls |-> <<>>]
             ELSE IF r.err # "none"
             THEN [db |-> r.db, status |-> 500, body |-> [error |-> r.err],
                   calls |-> SubSeq(calls, 1, r.made)]
             ELSE [db |-> r.db, status |-> 200,
                   body |-> [status |-> "success",
                             data |-> [chunks |-> Len(chunks),
                                       filename |-> request.file.filename]],
                   calls |-> calls]

----------------------------------------------------------------------------
(* The inputs of the model.                                                *)

Providers == {"ok", "unavailable", "baddim"}

\* "a" and "A" have the same embedding; "a b" has another.
StoreTexts == {T_a, T_A, T_ab}

QueryTexts == {T_a, T_b, T_ab}

StoreMetadata == {[source |-> StrVal("example1"), chunk_id |-> IntVal(7)]}

NoThreads == <<>>
NoArgs == [text |-> <<>>, chunk_size |-> 0]
NoResult == [op |-> "none"]

----------------------------------------------------------------------------
(* Spec: the operations of the store, one call at a time.                  *)

Init ==
    /\ faiss_db = EmptyDB
    /\ result = NoResult
    /\ threads = NoThreads
    /\ chunk_args = NoArgs

StoreEmbeddings(text, metadata, provider) ==
    /\ Len(faiss_db.documents) < MaxDocs
    /\ LET r == store_embeddings(faiss_db, text, metadata, provider)
       IN  /\ faiss_db' = r.db
           /\ result' = [op |-> "store_embeddings", err |-> r.err]
    /\ UNCHANGED <<threads, chunk_args>>

QueryEmbeddings(query, provider) ==
    /\ LET r == query_embeddings(faiss_db, query, provider)
       IN  result' = [op |-> "query_embeddings", query |-> query,
                      provider |-> provider, err |-> r.err, value |-> r.value]
    /\ UNCHANGED <<faiss_db, threads, chunk_args>>

Next ==
    \/ \E text \in StoreTexts, metadata \in StoreMetadata, provider \in Providers :
          StoreEmbeddings(text, metadata, provider)
    \/ \E query \in QueryTexts, provider \in Providers :
          QueryEmbeddings(query, provider)

Spec == Init /\ [][Next]_vars

----------------------------------------------------------------------------
(* SpecUpload: uploads, direct store calls and queries, one at a time.     *)

\* "a b a" (chunks "a b" and "a"), a text with line breaks and spaces around
\* its one word (one chunk "A"), and a text without words (no chunk).
FileContents ==
    { <<"a", " ", "b", " ", "a">>,
      <<"\n", "A", " ", "\n">>,
      <<" ">> }

Requests ==
    {[has_file |-> FALSE, file |-> [filename |-> "", content |-> <<>>]]}
    \cup {[has_file |-> TRUE, file |-> [filename |-> "a.txt", content |-> c]] :
            c \in FileContents}
    \cup {[has_file |-> TRUE, file |-> [filename |-> f, content |-> <<"a">>]] :
            f \in {"", "b.DOCX", "c.exe"}}

\* The chunks upload_file makes of a request's file.
ChunksOf(request) ==
    chunk_text(process_text(handle_file_upload(request.file).text), DefaultChunkSize)

\* What the embedding provider does on each call of an upload of n chunks:
\* it answers all of them, or it fails on one call (later ones are not made).
ProviderRuns(n) ==
    {[j \in 1..n |-> "ok"]}
    \cup {[j \in 1..n |-> IF j = f THEN bad ELSE "ok"] :
            f \in 1..n, bad \in {"unavailable", "baddim"}}

UploadFile(request, providers) ==
    /\ Len(faiss_db.documents) + Len(providers) <= MaxUploadDocs
    /\ LET r == upload_file(faiss_db, request, providers)
       IN  /\ faiss_db' = r.db
           /\ result' = [op |-> "upload_file", status |-> r.status, body |-> r.body,
                      calls |-> r.calls]
    /\ UNCHANGED <<threads, chunk_args>>

NextUpload ==
    \/ \E request \in Requests :
          \E providers \in ProviderRuns(Len(ChunksOf(request))) :
             UploadFile(request, providers)
    \/ \E text \in StoreTexts, metadata \in StoreMetadata :
          /\ Len(faiss_db.documents) < MaxUploadDocs
          /\ StoreEmbeddings(text, metadata, "ok")
    \/ \E query \in QueryTexts : QueryEmbeddings(query, "ok")

SpecUpload == Init /\ [][NextUpload]_vars

----------------------------------------------------------------------------
(* SpecChunk: chunk_text, and upload_file on a fresh store, for every text *)
(* of at most MaxTextLen characters.                                       *)

Alphabet == {"a", "b", " ", "\n"}

ChunkTexts == UNION {[1..n -> Alphabet] : n \in 0..MaxTextLen}

InitChunk ==
    /\ faiss_db = EmptyDB
    /\ result = NoResult
    /\ threads = NoThreads
    /\ chunk_args \in [text : ChunkTexts, chunk_size : 1..MaxChunkSize]

ChunkText ==
    /\ result' = [op |-> "chunk_text",
                  value |-> chunk_text(chunk_args.text, chunk_args.chunk_size)]
    /\ UNCHANGED <<faiss_db, threads, chunk_args>>

\* The upload of a txt file whose text is chunk_args.text to the fresh store.
UploadText ==
    /\ faiss_db = EmptyDB
    /\ LET request == [has_file |-> TRUE,
                       file |-> [filename |-> "a.txt", content |-> chunk_args.text]]
           n == Len(ChunksOf(request))
       IN  \E providers \in ProviderRuns(n) :
              LET r == upload_file(faiss_db, request, providers)
              IN  /\ faiss_db' = r.db
                  /\ result' = [op |-> "upload_file", status |-> r.status,
                                body |-> r.body, calls |-> r.calls]
    /\ UNCHANGED <<threads, chunk_args>>

NextChunk == ChunkText \/ UploadText

SpecChunk == InitChunk /\ [][NextChunk]_vars

----------------------------------------------------------------------------
(* SpecConc: store_embeddings and query_embeddings calls of two request    *)
(* threads on the shared faiss_db.  The code takes no lock; a step is one  *)
(* operation on a shared list, dictionary or index, and whatever a call    *)
(* computes on its own values goes with the step before it.                *)

Threads == {"t1", "t2"}

ConcTexts == {T_a, T_ab}

Idle == [pc |-> "idle"]

InitConc ==
    /\ faiss_db = EmptyDB
    /\ result = NoResult
    /\ threads = [t \in Threads |-> Idle]
    /\ chunk_args = NoArgs

\* The index, the ids and the documents each hold fewer than MaxConcDocs
\* entries.
RoomToStore ==
    /\ Len(faiss_db.index) < MaxConcDocs
    /\ Len(faiss_db.ids) < MaxConcDocs
    /\ Len(faiss_db.documents) < MaxConcDocs

\* store_embeddings is called: the embedding and the id are computed.
StoreBegin(t, text, metadata, provider) ==
    /\ threads[t].pc = "idle"
    /\ RoomToStore
    /\ LET e == generate_embeddings(text, provider)
       IN  threads' = [threads EXCEPT ![t] =
              IF e.err # "none" THEN Idle
              ELSE [pc |-> "index_add", text |-> text, metadata |-> metadata,
                    vec |-> e.vec, doc_id |-> _generate_id_from_text(text)]]
    /\ UNCHANGED <<faiss_db, result, chunk_args>>

\* self.index.add(embedding_np)
StoreIndexAdd(t) ==
    /\ threads[t].pc = "index_add"
    /\ LET added == IndexAdd(faiss_db.index, threads[t].vec)
       IN  /\ faiss_db' = [faiss_db EXCEPT !.index = added.index]
           /\ threads' = [threads EXCEPT ![t] =
                 IF added.err # "none" THEN Idle
                 ELSE [threads[t] EXCEPT !.pc = "ids_append"]]
    /\ UNCHANGED <<result, chunk_args>>

\* self.ids.append(doc_id)
StoreIdsAppend(t) ==
    /\ threads[t].pc = "ids_append"
    /\ faiss_db' = [faiss_db EXCEPT !.ids = Append(@, threads[t].doc_id)]
    /\ threads' = [threads EXCEPT ![t].pc = "documents_append"]
    /\ UNCHANGED <<result, chunk_args>>

\* self.documents.append(text)
StoreDocumentsAppend(t) ==
    /\ threads[t].pc = "documents_append"
    /\ faiss_db' = [faiss_db EXCEPT !.documents = Append(@, threads[t].text)]
    /\ threads' = [threads EXCEPT ![t].pc = "metadata_set"]
    /\ UNCHANGED <<result, chunk_args>>

\* self.metadata_store[doc_id] = {...}; the call returns.
StoreMetadataSet(t) ==
    /\ threads[t].pc = "metadata_set"
    /\ faiss_db' = [faiss_db EXCEPT !.metadata_store =
          DictSet(@, threads[t].doc_id, NormalizeMetadata(threads[t].metadata))]
    /\ threads' = [threads EXCEPT ![t] = Idle]
    /\ UNCHANGED <<result, chunk_args>>

\* query_embeddings is called: the test of self.index.ntotal, and the
\* query's embedding.
QueryBegin(t, query, provider) ==
    /\ threads[t].pc = "idle"
    /\ LET e == generate_embeddings(query, provider)
       IN  threads' = [threads EXCEPT ![t] =
              IF Len(faiss_db.index) = 0
              THEN [pc |-> "return", found |-> <<>>, value |-> <<>>]
              ELSE IF e.err # "none" THEN Idle
              ELSE [pc |-> "search", vec |-> e.vec]]
    /\ UNCHANGED <<faiss_db, result, chunk_args>>

\* distances, indices = self.index.search(query_embedding, n_results)
QuerySearch(t) ==
    /\ threads[t].pc = "search"
    /\ LET s == IndexSearch(faiss_db.index, threads[t].vec, n_results)
       IN  threads' = [threads EXCEPT ![t] =
              IF s.err # "none" THEN Idle
              ELSE [pc |-> "loop", found |-> s.found, i |-> 1, value |-> <<>>]]
    /\ UNCHANGED <<faiss_db, result, chunk_args>>

\* One pass of the loop over the found pairs.
QueryLoop(t) ==
    /\ threads[t].pc = "loop"
    /\ LET th == threads[t]
           value == th.value \o Lookup(faiss_db, th.found[th.i])
       IN  threads' = [threads EXCEPT ![t] =
              IF th.i = Len(th.found)
              THEN [pc |-> "return", found |-> th.found, value |-> value]
              ELSE [th EXCEPT !.i = th.i + 1, !.value = value]]
    /\ UNCHANGED <<faiss_db, result, chunk_args>>

\* return valid_results
QueryReturn(t) ==
    /\ threads[t].pc = "return"
    /\ threads' = [threads EXCEPT ![t] = Idle]
    /\ UNCHANGED <<faiss_db, result, chunk_args>>

NextConc ==
    \E t \in Threads :
        \/ \E text \in ConcTexts, metadata \in StoreMetadata, provider \in Providers :
              StoreBegin(t, text, metadata, provider)
        \/ StoreIndexAdd(t)
        \/ StoreIdsAppend(t)
        \/ StoreDocumentsAppend(t)
        \/ StoreMetadataSet(t)
        \/ \E query \in ConcTexts, provider \in Providers :
              QueryBegin(t, query, provider)
        \/ QuerySearch(t)
        \/ QueryLoop(t)
        \/ QueryReturn(t)

SpecConc == InitConc /\ [][NextConc]_vars

----------------------------------------------------------------------------
(* Properties of Spec.                                                     *)

IsQuery == result.op = "query_embeddings"
Answered == IsQuery /\ result.err = "none"
NumStored == Len(faiss_db.documents)
Stored(text) == \E p \in 1..NumStored : faiss_db.documents[p] = text

\* C1: whatever store_embeddings and query_embeddings calls have completed,
\* failed ones included, the index holds as many vectors as there are
\* documents and ids.
C1_Alignment ==
    /\ Len(faiss_db.index) = Len(faiss_db.documents)
    /\ Len(faiss_db.documents) = Len(faiss_db.ids)

\* A store call has just failed on a store that holds entries.
C1_Witness ==
    /\ result.op = "store_embeddings"
    /\ result.err = "EmbeddingUnavailable"
    /\ Len(faiss_db.index) >= 3

\* C3: an answered query lists entries of the store with their squared
\* distance to the query's embedding, each entry ranked before the next
\* (smaller distance, or equal distance and earlier position), and every
\* position that is not listed ranks after every listed one.
C3_Ranking ==
    Answered =>
        LET v == result.value
            q == Embed(result.query)
            dist(p) == L2Sqr(faiss_db.index[p + 1], q)
            listed == {v[i].idx : i \in 1..Len(v)}
        IN  /\ \A i \in 1..Len(v) :
                 /\ v[i].idx \in 0..(NumStored - 1)
                 /\ v[i].distance = dist(v[i].idx)
                 /\ v[i].document = faiss_db.documents[v[i].idx + 1]
            /\ \A i \in 1..(Len(v) - 1) :
                 \/ v[i].distance < v[i + 1].distance
                 \/ /\ v[i].distance = v[i + 1].distance
                    /\ v[i].idx < v[i + 1].idx
            /\ \A p \in (0..(NumStored - 1)) \ listed : \A i \in 1..Len(v) :
                 \/ v[i].distance < dist(p)
                 \/ v[i].distance = dist(p) /\ v[i].idx < p

\* An answered query on a store of more than n_results entries whose answer
\* has two entries at the same distance and two at different distances.
C3_Witness ==
    /\ Answered
    /\ NumStored > n_results
    /\ \E i \in 1..(Len(result.value) - 1) :
          result.value[i].distance = result.value[i + 1].distance
    /\ \E i \in 1..(Len(result.value) - 1) :
          result.value[i].distance < result.value[i + 1].distance

\* C4: a query of an empty store returns the empty list whatever the
\* embedding provider does, and a query the provider answers returns
\* min(n_results, n) entries of a store of n.
C4_ResultCount ==
    IsQuery =>
        /\ NumStored = 0 => result.err = "none" /\ result.value = <<>>
        /\ result.provider = "ok" =>
              /\ result.err = "none"
              /\ Len(result.value) = Min(n_results, NumStored)

\* A query of a store holding fewer entries than n_results returned them all.
C4_Witness ==
    /\ Answered
    /\ NumStored \in 1..(n_results - 1)
    /\ Len(result.value) = NumStored

\* C5 as the specification states it: an answered query for the text of a stored chunk has that
\* text, at distance 0, as its first entry.
C5_SelfRetrieval ==
    (Answered /\ Stored(result.query)) =>
        /\ result.value[1].distance = 0
        /\ result.value[1].document = result.query

\* C5 as amended: an answered query for the text of a stored chunk has as its
\* first entry, at distance 0, a text with the same embedding as the chunk;
\* it is the chunk's text when no other stored text has that embedding.
C5_SelfRetrievalUpToEmbedding ==
    (Answered /\ Stored(result.query)) =>
        /\ result.value[1].distance = 0
        /\ Embed(result.value[1].document) = Embed(result.query)
        /\ (\A p \in 1..NumStored :
                Embed(faiss_db.documents[p]) = Embed(result.query)
                    => faiss_db.documents[p] = result.query)
              => result.value[1].document = result.query

\* A query for a chunk stored twice, after a chunk with another embedding,
\* in a store of more than n_results entries, answered with that chunk first.
C5_Witness ==
    /\ Answered
    /\ NumStored > n_results
    /\ faiss_db.documents[1] # result.query
    /\ Embed(faiss_db.documents[1]) # Embed(result.query)
    /\ Cardinality({p \in 1..NumStored : faiss_db.documents[p] = result.query}) >= 2
    /\ result.value[1].document = result.query

\* C7: a store_embeddings call that fails, for a vector of the wrong length
\* or for the embedding provider, leaves the index, the ids, the documents
\* and the metadata as they were.
C7_FailedStoreUnchanged ==
    [][(result'.op = "store_embeddings" /\ result'.err # "none")
          => faiss_db' = faiss_db]_vars

\* A store call has just failed with DimensionMismatch on a store that
\* holds entries and metadata.
C7_Witness ==
    /\ result.op = "store_embeddings"
    /\ result.err = "DimensionMismatch"
    /\ NumStored >= 1
    /\ DOMAIN faiss_db.metadata_store # {}

----------------------------------------------------------------------------
(* Properties of SpecUpload.                                               *)

\* What a query_embeddings entry that refers to position p (0-based) of db
\* reports as document and metadata.
Reported(db, p) ==
    LET e == Lookup(db, [idx |-> p, dist |-> 0])[1]
    IN  [document |-> e.document, metadata |-> e.metadata]

\* C2: what a query reports for a position that holds an entry (its text and
\* its metadata) is the same after every step as before it, whatever the
\* step ingests.
C2_RecordsImmutable ==
    [][\A p \in 0..(Len(faiss_db.documents) - 1) :
          Reported(faiss_db', p) = Reported(faiss_db, p)]_vars

\* C6: an upload whose embedding provider fails on chunk j (0-based) appends
\* chunks 0..j-1 to the documents in order and nothing else, reports each of
\* them with its chunk_id, leaves what is reported for every earlier position
\* as it was, and answers with an error.
C6_PartialSuccess ==
    [][\A request \in Requests :
         \A providers \in ProviderRuns(Len(ChunksOf(request))) :
           \A j \in 0..(Len(providers) - 1) :
             (providers[j + 1] # "ok" /\ UploadFile(request, providers)) =>
                LET chunks == ChunksOf(request)
                    base == Len(faiss_db.documents)
                IN  /\ faiss_db'.documents = faiss_db.documents \o SubSeq(chunks, 1, j)
                    /\ Len(faiss_db'.index) = base + j
                    /\ Len(faiss_db'.ids) = base + j
                    /\ \A i \in 0..(j - 1) :
                          Reported(faiss_db', base + i).metadata["chunk_id"] = ToString(i)
                    /\ \A p \in 0..(base - 1) :
                          Reported(faiss_db', p) = Reported(faiss_db, p)
                    /\ result'.status = 500]_vars

----------------------------------------------------------------------------
(* Properties of SpecChunk.                                                *)

RECURSIVE Flatten(_)
Flatten(ss) == IF ss = <<>> THEN <<>> ELSE Head(ss) \o Flatten(Tail(ss))

\* The characters of text that are not whitespace, in order.
RECURSIVE NonWhitespace(_)
NonWhitespace(text) ==
    IF text = <<>> THEN <<>>
    ELSE IF Head(text) \in Whitespace THEN NonWhitespace(Tail(text))
    ELSE <<Head(text)>> \o NonWhitespace(Tail(text))

\* The number of maximal runs of non-whitespace characters in text.
NumWords(text) ==
    Cardinality({i \in 1..Len(text) :
        /\ text[i] \notin Whitespace
        /\ (i = 1 \/ text[i - 1] \in Whitespace)})

\* words are the whitespace-split words of text.
IsWordsOf(words, text) ==
    /\ Len(words) = NumWords(text)
    /\ \A j \in 1..Len(words) :
          /\ words[j] # <<>>
          /\ \A i \in 1..Len(words[j]) : words[j][i] \notin Whitespace
    /\ Flatten(words) = NonWhitespace(text)

----------------------------------------------------------------------------
(* Properties of SpecConc.                                                 *)

NoStoreRunning ==
    \A t \in Threads :
        threads[t].pc \notin {"index_add", "ids_append", "documents_append", "metadata_set"}

\* C8: whenever no store_embeddings call is under way, every position holds
\* the id, the document and the vector of one text: the calls that ran
\* concurrently left what calls run one after the other would.
C8_SerializedIngestion ==
    NoStoreRunning =>
        /\ Len(faiss_db.index) = Len(faiss_db.documents)
        /\ Len(faiss_db.ids) = Len(faiss_db.documents)
        /\ \A p \in 1..Len(faiss_db.documents) :
              /\ faiss_db.ids[p] = _generate_id_from_text(faiss_db.documents[p])
              /\ faiss_db.index[p] = Embed(faiss_db.documents[p])

\* C9: a query_embeddings call that returns has an entry for every position
\* its search of the index found: at none of them was the id or the document
\* missing.
C9_ConsistentReads ==
    \A t \in Threads :
        threads[t].pc = "return" =>
            Len(threads[t].value) =
                Cardinality({r \in 1..Len(threads[t].found) : threads[t].found[r].idx # -1})

====
